---- MODULE Spec2Model ----
(***************************************************************************)
(* Model of ebay_selected_categories_with_charity_sellers.py: the seller   *)
(* classifier, the charity detector, the saved-search list kept in the     *)
(* Streamlit session state, and the search run (token check, request,      *)
(* result filter loop, presentation).                                      *)
(*                                                                         *)
(* Money is kept in cents and percentages in 1/PctScale of a percent, so   *)
(* that the float comparisons of the source are integer comparisons here.  *)
(***************************************************************************)
EXTENDS Integers, Sequences, FiniteSets, TLC

VARIABLES
    cls,             \* one call of categorize_seller: its arguments and its outcome
    chk,             \* one call of is_charity_seller: its argument and its outcome
    saved_searches,  \* st.session_state.saved_searches
    loaded,          \* the loaded_* keys of st.session_state
    ret,             \* what the last saved-search operation returned
    access_token,    \* module-level access_token (line 41)
    form,            \* the widget values of the run that handles the click
    pc,              \* where the search run is
    requests,        \* GET requests issued to the search endpoint
    status_code,     \* response.status_code
    items,           \* response.json().get("itemSummaries", [])
    idx,             \* number of items the filter loop has finished with
    results,         \* the list the filter loop appends to
    presented,       \* the rows of the data frame that is displayed
    error,           \* the exception that ended the run, "" if none
    request,         \* the GET request of the run: q, the filter clauses, params
    widgets,         \* the form widgets: the default each was created with, its value
    snapshots        \* history: the form values at the save of each saved entry

vars == << cls, chk, saved_searches, loaded, ret, access_token, form, pc,
           requests, status_code, items, idx, results, presented, error,
           request, widgets, snapshots >>

classVars   == << cls >>
charityVars == << chk >>
sessionVars == << saved_searches, loaded, ret >>
searchVars  == << access_token, form, pc, requests, status_code, items, idx,
                  results, presented, error >>
requestVars == << request >>
formVars    == << widgets, snapshots >>

-----------------------------------------------------------------------------
(* Python values as far as int() and float() tell them apart.              *)

PyVal(k, v) == [k |-> k, v |-> v]
PyNone  == PyVal("none", 0)     \* None (JSON null)
PyText  == PyVal("str", 0)      \* a string that is no number, e.g. "abc"
PyObj   == PyVal("obj", 0)      \* a list or dict
PyNaN   == PyVal("nan", 0)      \* float("nan")
Num(n)  == PyVal("num", n)      \* a finite number, or a string spelling one

\* The outcome of a conversion or of a call: a value, or an exception.
Ok(v)      == [exc |-> "", v |-> v]
Raise(e)   == [exc |-> e, v |-> 0]

\* int(x): ValueError for text and NaN, TypeError for None and containers.
PyInt(x) ==
    CASE x.k = "num"  -> Ok(x.v)
      [] x.k = "str"  -> Raise("ValueError")
      [] x.k = "nan"  -> Raise("ValueError")
      [] x.k = "none" -> Raise("TypeError")
      [] x.k = "obj"  -> Raise("TypeError")

\* float(x): NaN converts; its value is flagged by nan.
PyFloat(x) ==
    CASE x.k = "num"  -> [exc |-> "", v |-> x.v, nan |-> FALSE]
      [] x.k = "nan"  -> [exc |-> "", v |-> 0, nan |-> TRUE]
      [] x.k = "str"  -> [exc |-> "ValueError", v |-> 0, nan |-> FALSE]
      [] x.k = "none" -> [exc |-> "TypeError", v |-> 0, nan |-> FALSE]
      [] x.k = "obj"  -> [exc |-> "TypeError", v |-> 0, nan |-> FALSE]

-----------------------------------------------------------------------------
(* categorize_seller                                                       *)

\* Resolution of percentages: a percentage p is stored as p * PctScale.
PctScale == 10

\* percent >= n for a float percent (false for NaN).
PctGE(p, n) == ~p.nan /\ p.v >= n * PctScale
PctLT(p, n) == ~p.nan /\ p.v < n * PctScale

\* Mutant: the thresholds compared with > instead of >=.
TierOfStrict(score, percent) ==
    IF score > 5000 /\ PctGE(percent, 99) THEN "Elite"
    ELSE IF score > 1000 /\ PctGE(percent, 98) THEN "Excellent"
    ELSE IF score > 500 /\ PctGE(percent, 97) THEN "Very Good"
    ELSE IF score > 100 /\ PctGE(percent, 95) THEN "Good"
    ELSE IF score > 100 /\ PctGE(percent, 90) THEN "Average"
    ELSE IF score < 100 /\ PctGE(percent, 90) THEN "Inexperienced"
    ELSE IF PctLT(percent, 90) THEN "Low Rated"
    ELSE "Uncategorized"

\* Lines 51-66: the rule chain on the converted score and percent.
TierOf(score, percent) ==
    IF score >= 5000 /\ PctGE(percent, 99) THEN "Elite"
    ELSE IF score >= 1000 /\ PctGE(percent, 98) THEN "Excellent"
    ELSE IF score >= 500 /\ PctGE(percent, 97) THEN "Very Good"
    ELSE IF score >= 100 /\ PctGE(percent, 95) THEN "Good"
    ELSE IF score >= 100 /\ PctGE(percent, 90) THEN "Average"
    ELSE IF score < 100 /\ PctGE(percent, 90) THEN "Inexperienced"
    ELSE IF PctLT(percent, 90) THEN "Low Rated"
    ELSE "Uncategorized"

\* Mutant: the Very Good rule tested after the Average rule.
categorize_seller_reordered(feedback_score, feedback_percent) ==
    LET score   == IF feedback_score.k # "none" THEN PyInt(feedback_score) ELSE Ok(0)
        percent == IF feedback_percent.k # "none" THEN PyFloat(feedback_percent)
                   ELSE [exc |-> "", v |-> 0, nan |-> FALSE]
    IN  IF score.exc # "" \/ percent.exc # "" THEN Ok("Uncategorized")
        ELSE IF score.v >= 5000 /\ PctGE(percent, 99) THEN Ok("Elite")
        ELSE IF score.v >= 1000 /\ PctGE(percent, 98) THEN Ok("Excellent")
        ELSE IF score.v >= 100 /\ PctGE(percent, 95) THEN Ok("Good")
        ELSE IF score.v >= 100 /\ PctGE(percent, 90) THEN Ok("Average")
        ELSE IF score.v >= 500 /\ PctGE(percent, 97) THEN Ok("Very Good")
        ELSE Ok(TierOf(score.v, percent))

\* Mutant: the conversions done without the "is not None" guards.
categorize_seller_unguarded(feedback_score, feedback_percent) ==
    LET score   == PyInt(feedback_score)
        percent == PyFloat(feedback_percent)
    IN  IF score.exc # "" \/ percent.exc # "" THEN Ok("Uncategorized")
        ELSE Ok(TierOf(score.v, percent))

\* Lines 44-66. The result is Ok(tier), or Raise(e) for an exception the
\* except clause (ValueError, TypeError) does not catch.
categorize_seller(feedback_score, feedback_percent) ==
    LET score   == IF feedback_score.k # "none" THEN PyInt(feedback_score) ELSE Ok(0)
        percent == IF feedback_percent.k # "none" THEN PyFloat(feedback_percent)
                   ELSE [exc |-> "", v |-> 0, nan |-> FALSE]
    IN  IF score.exc \in {"ValueError", "TypeError"} THEN Ok("Uncategorized")
        ELSE IF score.exc # "" THEN Raise(score.exc)
        ELSE IF percent.exc \in {"ValueError", "TypeError"} THEN Ok("Uncategorized")
        ELSE IF percent.exc # "" THEN Raise(percent.exc)
        ELSE Ok(TierOf(score.v, percent))

-----------------------------------------------------------------------------
(* is_charity_seller. A string is the sequence of its characters.          *)

UpperCase == <<"A", "B", "C", "D", "E", "F", "G", "H",
              "I", "J", "K", "L", "M", "N", "O", "P",
              "Q", "R", "S", "T", "U", "V", "W", "X",
              "Y", "Z">>
LowerCase == <<"a", "b", "c", "d", "e", "f", "g", "h",
              "i", "j", "k", "l", "m", "n", "o", "p",
              "q", "r", "s", "t", "u", "v", "w", "x",
              "y", "z">>

\* str.lower() on one character and on a string (ASCII letters).
LowerChar(c) ==
    IF \E i \in 1..Len(UpperCase) : UpperCase[i] = c
    THEN LowerCase[CHOOSE i \in 1..Len(UpperCase) : UpperCase[i] = c]
    ELSE c

Lower(s) == [i \in 1..Len(s) |-> LowerChar(s[i])]

\* Lines 77-100.
charity_keywords == <<
    <<"g", "o", "o", "d", "w", "i", "l", "l">>,
    <<"s", "a", "l", "v", "a", "t", "i", "o", "n", "a", "r", "m", "y">>,
    <<"s", "a", "l", "v", "a", "t", "i", "o", "n", "_", "a", "r", "m", "y">>,
    <<"h", "a", "b", "i", "t", "a", "t">>,
    <<"h", "a", "b", "i", "t", "a", "t", "r", "e", "s", "t", "o", "r", "e">>,
    <<"h", "a", "b", "i", "t", "a", "t", "f", "o", "r", "h", "u", "m", "a", "n", "i", "t", "y">>,
    <<"n", "o", "n", "p", "r", "o", "f", "i", "t">>,
    <<"s", "v", "d", "p">>,
    <<"s", "t", "v", "i", "n", "c", "e", "n", "t", "d", "e", "p", "a", "u", "l">>,
    <<"v", "i", "n", "c", "e", "n", "t", "d", "e", "p", "a", "u", "l">>,
    <<"c", "a", "t", "h", "o", "l", "i", "c", "c", "h", "a", "r", "i", "t", "i", "e", "s">>,
    <<"c", "a", "t", "h", "o", "l", "i", "c", "c", "h", "a", "r", "i", "t", "y">>,
    <<"o", "x", "f", "a", "m">>,
    <<"b", "a", "r", "n", "a", "r", "d", "o", "s">>,
    <<"b", "r", "i", "t", "i", "s", "h", "h", "e", "a", "r", "t", "f", "o", "u", "n", "d", "a", "t", "i", "o", "n">>,
    <<"b", "h", "f">>,
    <<"r", "e", "d", "c", "r", "o", "s", "s">>,
    <<"c", "h", "a", "r", "i", "t", "y">>,
    <<"c", "h", "a", "r", "i", "t", "i", "e", "s">>,
    <<"t", "h", "r", "i", "f", "t", "s", "t", "o", "r", "e", "u", "s", "a">>,
    <<"c", "h", "a", "r", "i", "t", "y", "t", "h", "r", "i", "f", "t">>,
    <<"n", "o", "n", "p", "r", "o", "f", "i", "t", "s", "t", "o", "r", "e">> >>

\* keyword in seller_lower: the keyword is a contiguous piece of the string.
Contains(keyword, s) ==
    \E i \in 1..(Len(s) - Len(keyword) + 1) :
        SubSeq(s, i, i + Len(keyword) - 1) = keyword

\* A username: None, or a string.
NoName     == [none |-> TRUE, chars |-> <<>>]
Name(s)    == [none |-> FALSE, chars |-> s]

\* Mutant: the keywords matched against the username as typed, not lower-cased.
is_charity_seller_case_sensitive(seller_username) ==
    IF seller_username.none \/ seller_username.chars = <<>> THEN FALSE
    ELSE \E n \in 1..Len(charity_keywords) :
             Contains(charity_keywords[n], seller_username.chars)

\* Lines 69-102.
is_charity_seller(seller_username) ==
    IF seller_username.none \/ seller_username.chars = <<>> THEN FALSE
    ELSE LET seller_lower == Lower(seller_username.chars)
         IN  \E n \in 1..Len(charity_keywords) :
                 Contains(charity_keywords[n], seller_lower)

-----------------------------------------------------------------------------
(* Saved searches, lines 105-129. An entry is [name, params]; its saved_at *)
(* stamp is display text that no operation reads. The loaded_* keys are    *)
(* written together by load_saved_search and deleted together by a search, *)
(* so they are absent (<<>>) or hold one parameter set (<<params>>).       *)

\* Line 107: f"{search_term} in {category} (${max_price})".
search_name(search_params) ==
    search_params.search_term \o " in " \o search_params.category
        \o " ($" \o ToString(search_params.max_price) \o ")"

\* The outcome of an operation on the list: the list after it and the value
\* it returns.
Outcome(list, value) == [list |-> list, value |-> value]

\* Mutant: the entry appended without looking for its name in the list.
save_current_search_no_dedup(searches, search_params) ==
    Outcome(Append(searches, [name |-> search_name(search_params),
                              params |-> search_params]), "True")

\* Lines 105-119.
save_current_search(searches, search_params) ==
    LET name           == search_name(search_params)
        existing_names == {searches[i].name : i \in 1..Len(searches)}
    IN  IF name \notin existing_names
        THEN Outcome(Append(searches, [name |-> name, params |-> search_params]),
                     "True")
        ELSE Outcome(searches, "False")

\* Lines 121-124: every key of the parameter set is stored as loaded_<key>.
load_saved_search(search_params) == << search_params >>

\* Lines 126-129, with Python's 0-based index.
delete_saved_search(searches, index) ==
    IF 0 <= index /\ index < Len(searches)
    THEN [i \in 1..(Len(searches) - 1) |->
              IF i <= index THEN searches[i] ELSE searches[i + 1]]
    ELSE searches

\* The last operation on the list: its name, its argument and what it returned.
Call(op, arg, value) == [op |-> op, arg |-> arg, value |-> value]
NoCall == Call("", <<>>, "None")

-----------------------------------------------------------------------------
(* The result filter loop, lines 383-443. A raw item is a record           *)
(*   [title, price, shipping, conditionId, condition, username,            *)
(*    feedbackScore, feedbackPercentage, buyingOptions, itemEndDate,       *)
(*    currentBidPrice, bidCount, itemWebUrl];                              *)
(* price, the shipping cost and currentBidPrice hold the "value" entry in  *)
(* cents, and a key that is absent holds Absent.                           *)

Absent == PyVal("absent", 0)

\* dict.get(key, default) on an entry that may be absent.
GetOr(x, default) == IF x.k = "absent" THEN default ELSE x

\* Line 385: float(item.get("price", {}).get("value", 0.0)).
ParsePrice(item) == PyFloat(GetOr(item.price, Num(0)))

\* Line 386: float(item.get("shippingOptions", [{}])[0].get("shippingCost",
\* {}).get("value", 0.0)). shipping.options tells whether the list is absent,
\* empty, or has a first option, whose cost is shipping.cost.
ParseShipping(item) ==
    CASE item.shipping.options = "absent" -> PyFloat(Num(0))
      [] item.shipping.options = "empty"  ->
             [exc |-> "IndexError", v |-> 0, nan |-> FALSE]
      [] item.shipping.options = "first"  ->
             PyFloat(GetOr(item.shipping.cost, Num(0)))

\* The end dates of the model as the API spells them, and what lines 418-421
\* make of them in US/Central; any other text fails to parse.
FormatEndTime(end_time_str) ==
    CASE end_time_str = "2026-01-01T09:00:00Z" -> Ok("2026-01-01 03:00 AM CST")
      [] end_time_str = "2026-01-01T19:00:00Z" -> Ok("2026-01-01 01:00 PM CST")
      [] OTHER -> Raise("ValueError")

InSeq(x, seq) == \E i \in 1..Len(seq) : seq[i] = x

\* Mutant: a date that fails to parse shown as N/A.
EndTimeFailureAsNA(item) ==
    IF InSeq("AUCTION", item.buyingOptions) /\ item.itemEndDate # ""
    THEN IF FormatEndTime(item.itemEndDate).exc = ""
         THEN FormatEndTime(item.itemEndDate).v
         ELSE "N/A"
    ELSE "N/A"

\* Lines 414-423; itemEndDate is "" when the key is absent.
EndTime(item) ==
    IF InSeq("AUCTION", item.buyingOptions) /\ item.itemEndDate # ""
    THEN IF FormatEndTime(item.itemEndDate).exc = ""
         THEN FormatEndTime(item.itemEndDate).v
         ELSE "Invalid date"
    ELSE "N/A"

\* ", ".join(buying_options), line 435.
RECURSIVE JoinComma(_)
JoinComma(seq) ==
    IF seq = <<>> THEN ""
    ELSE IF Len(seq) = 1 THEN seq[1]
    ELSE seq[1] \o ", " \o JoinComma(Tail(seq))

\* What one turn of the loop does with an item: it raises, it moves on
\* without a record (continue, or the price test fails), or it appends.
Raised(e)     == [kind |-> "raise", exc |-> e, record |-> <<>>]
Skipped       == [kind |-> "skip", exc |-> "", record |-> <<>>]
Appended(rec) == [kind |-> "append", exc |-> "", record |-> rec]

\* Lines 384-443 for one item under the widget values f.
LoopBody(item, f) ==
    LET price     == ParsePrice(item)
        shipping  == ParseShipping(item)
        auction   == InSeq("AUCTION", item.buyingOptions)
        seller_feedback_score   == GetOr(item.feedbackScore, Num(0))
        seller_feedback_percent == GetOr(item.feedbackPercentage, Num(0))
        seller_category == categorize_seller(seller_feedback_score,
                                             seller_feedback_percent)
        bid       == PyFloat(GetOr(item.currentBidPrice, Num(0)))
    IN  IF price.exc # "" THEN Raised(price.exc)
        ELSE IF shipping.exc # "" THEN Raised(shipping.exc)
        ELSE IF item.conditionId = "7000" THEN Skipped
        ELSE IF f.seller_type = "Charity" /\ ~is_charity_seller(item.username)
             THEN Skipped
        ELSE IF seller_category.exc # "" THEN Raised(seller_category.exc)
        ELSE IF f.seller_rating # {} /\ seller_category.v \notin f.seller_rating
             THEN Skipped
        ELSE IF auction /\ bid.exc # "" THEN Raised(bid.exc)
        ELSE IF price.v + shipping.v <= f.max_price * 100
             THEN Appended([listing               |-> item.title,
                            condition             |-> item.condition,
                            price                 |-> price.v,
                            current_bid_price     |-> IF auction THEN Num(bid.v)
                                                      ELSE PyNone,
                            listing_type          |-> JoinComma(item.buyingOptions),
                            bid_count             |-> IF auction
                                                      THEN GetOr(item.bidCount, PyNone)
                                                      ELSE PyNone,
                            auction_end_time      |-> EndTime(item),
                            seller                |-> item.username.chars,
                            seller_rating         |-> seller_category.v,
                            seller_feedback       |-> seller_feedback_percent,
                            seller_feedback_score |-> seller_feedback_score,
                            link                  |-> item.itemWebUrl])
        ELSE Skipped

-----------------------------------------------------------------------------
(* Presentation, lines 445-448 and 498-503. sort_values leaves the order   *)
(* of rows with equal keys to the sorting routine, so a sort yields any    *)
(* ordering of the rows in which the key never decreases.                  *)

Reordered(rows, q) == [i \in 1..Len(rows) |-> rows[q[i]]]

\* Line 448: the auction columns are dropped from the frame.
DropAuctionColumns(r) ==
    [listing |-> r.listing, condition |-> r.condition, price |-> r.price,
     listing_type |-> r.listing_type, seller |-> r.seller,
     seller_rating |-> r.seller_rating, seller_feedback |-> r.seller_feedback,
     seller_feedback_score |-> r.seller_feedback_score, link |-> r.link]

\* Line 502: the price column is dropped from the frame.
DropPriceColumn(r) ==
    [listing |-> r.listing, condition |-> r.condition,
     current_bid_price |-> r.current_bid_price, listing_type |-> r.listing_type,
     bid_count |-> r.bid_count, auction_end_time |-> r.auction_end_time,
     seller |-> r.seller, seller_rating |-> r.seller_rating,
     seller_feedback |-> r.seller_feedback,
     seller_feedback_score |-> r.seller_feedback_score, link |-> r.link]

\* Mutant: the frame shown in the order the loop appended.
SortByPriceSkipped(rows) == {rows}

\* Line 447: df.sort_values(by="price"); the orders it may produce.
SortByPrice(rows) ==
    {Reordered(rows, q) : q \in {r \in Permutations(1..Len(rows)) :
        \A i \in 1..(Len(rows) - 1) : rows[r[i]].price <= rows[r[i + 1]].price}}

\* The place of an end-time text in string order: digits sort before
\* "Invalid date", which sorts before "N/A"; %I puts 01:00 PM before 03:00 AM.
EndTimeRank(text) ==
    CASE text = "2026-01-01 01:00 PM CST" -> 1
      [] text = "2026-01-01 03:00 AM CST" -> 2
      [] text = "Invalid date"            -> 3
      [] text = "N/A"                     -> 4

\* Line 503: df.sort_values(by="auction_end_time", ascending=True).
SortByEndTime(rows) ==
    {Reordered(rows, q) : q \in {r \in Permutations(1..Len(rows)) :
        \A i \in 1..(Len(rows) - 1) :
            EndTimeRank(rows[r[i]].auction_end_time)
                <= EndTimeRank(rows[r[i + 1]].auction_end_time)}}

-----------------------------------------------------------------------------
(* The request of a search, lines 320-363.                                 *)

\* Lines 206-221; "" stands for None.
NoCategoryId == ""

CategoryNames ==
    << "All Categories", "Action Figures & Accessories", "Books", "DVD & Blu-ray",
       "Fragrances", "Furniture", "Hats", "Headphones", "Men's Clothing",
       "Men's Shoes", "Music CDs", "Music Cassettes", "Sporting Goods",
       "Video Games & Consoles" >>

category_options(name) ==
    CASE name = "All Categories"               -> NoCategoryId
      [] name = "Action Figures & Accessories" -> "246"
      [] name = "Books"                        -> "267"
      [] name = "DVD & Blu-ray"                -> "617"
      [] name = "Fragrances"                   -> "180345"
      [] name = "Furniture"                    -> "3197"
      [] name = "Hats"                         -> "52365"
      [] name = "Headphones"                   -> "112529"
      [] name = "Men's Clothing"               -> "1059"
      [] name = "Men's Shoes"                  -> "93427"
      [] name = "Music CDs"                    -> "176984"
      [] name = "Music Cassettes"              -> "176983"
      [] name = "Sporting Goods"               -> "888"
      [] name = "Video Games & Consoles"       -> "1249"

\* Lines 306-308: the categories with an aspect rule.
InAspectMap(name) == name = "Men's Shoes"

\* Lines 321-326 and 348-351: the query text.
build_query(f) ==
    LET quoted == "\"" \o f.search_term \o "\""
        query  ==
            IF f.category \in {"Cell Phones & Smartphones", "Tablets & eBook Readers"}
            THEN quoted \o " -(case,cover,keyboard,manual,guide,screen,protector,"
                        \o "folio,box,accessory,cable,cord,charger,pen,for parts,"
                        \o "not working, empty box)"
            ELSE IF f.category = "Tech Accessories"
            THEN quoted \o " -(broken,defective,not working,for parts, empty box)"
            ELSE quoted
    IN  IF ~InAspectMap(f.category) THEN query
        ELSE IF f.category = "Men's Clothing" THEN query \o " \"Medium\""
        ELSE IF f.category = "Men's Shoes" THEN query \o " \"11\""
        ELSE query

\* Mutant: a buying-options clause for every listing type, "All" as well.
build_filters_always_buying(f) ==
    << "price:[1.." \o ToString(f.max_price) \o "]",
       "priceCurrency:USD",
       "conditions:{1000|1500|2000|2500|3000}" >>
    \o (IF f.listing_type = "Fixed Price" THEN << "buyingOptions:{FIXED_PRICE}" >>
        ELSE IF f.listing_type = "Best Offer" THEN << "buyingOptions:{BEST_OFFER}" >>
        ELSE << "buyingOptions:{AUCTION}" >>)
    \o (IF InAspectMap(f.category) THEN << "aspect_filter=US Shoe Size:{11}" >>
        ELSE <<>>)

\* Lines 329-345: the filter clauses.
build_filters(f) ==
    << "price:[1.." \o ToString(f.max_price) \o "]",
       "priceCurrency:USD",
       "conditions:{1000|1500|2000|2500|3000}" >>
    \o (IF f.listing_type = "Auction" THEN << "buyingOptions:{AUCTION}" >>
        ELSE IF f.listing_type = "Fixed Price" THEN << "buyingOptions:{FIXED_PRICE}" >>
        ELSE IF f.listing_type = "Best Offer" THEN << "buyingOptions:{BEST_OFFER}" >>
        ELSE <<>>)
    \o (IF InAspectMap(f.category) THEN << "aspect_filter=US Shoe Size:{11}" >>
        ELSE <<>>)

\* ",".join(filters), line 357.
RECURSIVE JoinClauses(_)
JoinClauses(seq) ==
    IF seq = <<>> THEN ""
    ELSE IF Len(seq) = 1 THEN seq[1]
    ELSE seq[1] \o "," \o JoinClauses(Tail(seq))

\* Mutant: category_ids sent for every category.
build_params_always_category(f) ==
    [q |-> build_query(f), filter |-> JoinClauses(build_filters(f)),
     limit |-> f.limit, category_ids |-> category_options(f.category)]

\* Lines 355-363: the query parameters of the GET.
build_params(f) ==
    LET category_ids == category_options(f.category)
    IN  IF category_ids # NoCategoryId
        THEN [q |-> build_query(f), filter |-> JoinClauses(build_filters(f)),
              limit |-> f.limit, category_ids |-> category_ids]
        ELSE [q |-> build_query(f), filter |-> JoinClauses(build_filters(f)),
              limit |-> f.limit]

\* Lines 320-371: the request as it is sent.
build_request(f) ==
    [sent |-> TRUE, query |-> build_query(f), filters |-> build_filters(f),
     params |-> build_params(f)]

NoRequest == [sent |-> FALSE, query |-> "", filters |-> <<>>, params |-> <<>>]

-----------------------------------------------------------------------------
(* The form, lines 224-302.                                                *)

\* The seven parameters of the form, lines 224-280.
FormKeys ==
    {"category", "listing_type", "seller_type", "seller_rating", "search_term",
     "max_price", "limit"}

\* The keys of the parameter set that Save Search stores, lines 290-297.
SavedKeys ==
    {"search_term", "category", "listing_type", "seller_rating", "max_price",
     "limit"}

\* The second argument of each st.session_state.get, lines 227-279.
default_value(key) ==
    CASE key = "category"      -> "All Categories"
      [] key = "listing_type"  -> "All"
      [] key = "seller_type"   -> "All"
      [] key = "seller_rating" -> {}
      [] key = "search_term"   -> ""
      [] key = "max_price"     -> 150
      [] key = "limit"         -> 25

\* st.session_state.get('loaded_<key>', default), lines 227-279; ld is the
\* loaded parameter set, <<>> when no loaded_* key exists.
loaded_or_default(ld, key) ==
    IF ld # <<>> /\ key \in DOMAIN ld[1] THEN ld[1][key] ELSE default_value(key)

Widget(default, value) == [default |-> default, value |-> value]

\* One pass over lines 224-280. No widget has a key, so a widget is the same
\* widget as in the last run exactly when it is created with the same
\* arguments: it then keeps its value, and otherwise shows its new default.
Render(w, ld) ==
    [key \in FormKeys |->
        LET default == loaded_or_default(ld, key)
        IN  IF default # w[key].default THEN Widget(default, default) ELSE w[key]]

\* The values the form shows.
Values(w) == [key \in FormKeys |-> w[key].value]

\* Lines 290-297: the parameter set of Save Search.
search_params_of(w) == [key \in SavedKeys |-> w[key].value]

InitialWidgets ==
    [key \in FormKeys |-> Widget(default_value(key), default_value(key))]

FormUntouched ==
    /\ widgets = InitialWidgets
    /\ snapshots = <<>>

-----------------------------------------------------------------------------
(* The classifier on its own: one call with arguments drawn from the       *)
(* neighbourhood of every score threshold and from every percentage.       *)

\* How far around each score threshold the arguments are drawn.
ScoreSlack == 1

ScoreThresholds == {0, 100, 500, 1000, 5000}

ScoreInputs ==
    {PyNone, PyText, PyObj}
        \cup {Num(t + d) : t \in ScoreThresholds, d \in (0 - ScoreSlack)..ScoreSlack}

PercentInputs ==
    {PyNone, PyText, PyObj, PyNaN} \cup {Num(p) : p \in 0..(100 * PctScale)}

ClsIdle     == [score |-> PyNone, percent |-> PyNone, called |-> FALSE, out |-> Ok("")]
ChkIdle     == [username |-> <<>>, called |-> FALSE, out |-> FALSE]
FormIdle    == [max_price |-> 1, seller_type |-> "All", seller_rating |-> {},
                listing_type |-> "All", category |-> "All Categories",
                search_term |-> "", limit |-> 1]

SessionIdle ==
    /\ saved_searches = <<>>
    /\ loaded = <<>>
    /\ ret = NoCall
    /\ FormUntouched

SearchIdle ==
    /\ request = NoRequest
    /\ access_token = "None"
    /\ form = FormIdle
    /\ pc = "idle"
    /\ requests = 0
    /\ status_code = 0
    /\ items = <<>>
    /\ idx = 0
    /\ results = <<>>
    /\ presented = <<>>
    /\ error = ""

InitClassify ==
    /\ cls \in [score : ScoreInputs, percent : PercentInputs,
                called : {FALSE}, out : {Ok("")}]
    /\ chk = ChkIdle
    /\ SessionIdle
    /\ SearchIdle

\* A call categorize_seller(score, percent), lines 44-66.
Categorize ==
    /\ ~cls.called
    /\ cls' = [cls EXCEPT !.called = TRUE,
                          !.out = categorize_seller(cls.score, cls.percent)]
    /\ UNCHANGED << charityVars, sessionVars, searchVars, requestVars, formVars >>

NextClassify == Categorize

SpecClassify == InitClassify /\ [][NextClassify]_vars

-----------------------------------------------------------------------------
(* The rule table as the specification gives it, for the claims below.     *)

Tiers == {"Elite", "Excellent", "Very Good", "Good", "Average",
          "Inexperienced", "Low Rated", "Uncategorized"}

RuleTier == << "Elite", "Excellent", "Very Good", "Good", "Average",
               "Inexperienced", "Low Rated" >>

\* Rule n's bounds hold of score s and percentage p (p in 1/PctScale percent).
RuleHolds(n, s, p) ==
    CASE n = 1 -> s >= 5000 /\ p >= 99 * PctScale
      [] n = 2 -> s >= 1000 /\ p >= 98 * PctScale
      [] n = 3 -> s >= 500 /\ p >= 97 * PctScale
      [] n = 4 -> s >= 100 /\ p >= 95 * PctScale
      [] n = 5 -> s >= 100 /\ p >= 90 * PctScale
      [] n = 6 -> s < 100 /\ p >= 90 * PctScale
      [] n = 7 -> p < 90 * PctScale

\* The rules that match; none matches a NaN percentage.
Matching(s, pv) ==
    IF pv.k = "nan" THEN {} ELSE {n \in 1..7 : RuleHolds(n, s, pv.v)}

FirstRule(S) == CHOOSE n \in S : \A m \in S : n <= m

\* The tier of the first matching rule, Uncategorized when there is none.
TableTier(s, pv) ==
    IF Matching(s, pv) = {} THEN "Uncategorized" ELSE RuleTier[FirstRule(Matching(s, pv))]

Numeric(x) == x.k = "num"

\* C1: for numeric arguments categorize_seller returns one tier, the tier of
\* the first rule of the table that matches; the arguments satisfy that
\* rule's bounds; Uncategorized is returned only when no rule matches, and so
\* never for an integer score with a percentage between 0 and 100.
C1_FirstMatchingRule ==
    (cls.called /\ Numeric(cls.score) /\ cls.percent.k \in {"num", "nan"}) =>
        LET s  == cls.score.v
            pv == cls.percent
            m  == Matching(s, pv)
        IN  /\ cls.out.exc = ""
            /\ cls.out.v \in Tiers
            /\ m # {} => /\ cls.out.v = RuleTier[FirstRule(m)]
                         /\ RuleHolds(FirstRule(m), s, pv.v)
                         /\ \A n \in 1..7 : n < FirstRule(m) => ~RuleHolds(n, s, pv.v)
            /\ cls.out.v = "Uncategorized" => m = {}
            /\ (pv.k = "num" /\ pv.v \in 0..(100 * PctScale)) =>
                   cls.out.v # "Uncategorized"

\* A call on a threshold, (5000, 99), answered Elite.
C1_Witness ==
    /\ cls.called
    /\ cls.score = Num(5000)
    /\ cls.percent = Num(99 * PctScale)
    /\ cls.out = Ok("Elite")

\* C2 as stated: (1000, 98) is Excellent, (999, 98) is Average, (5000, 99)
\* is Elite.
C2_AsStated ==
    cls.called =>
        /\ (cls.score = Num(1000) /\ cls.percent = Num(98 * PctScale))
               => cls.out = Ok("Excellent")
        /\ (cls.score = Num(999) /\ cls.percent = Num(98 * PctScale))
               => cls.out = Ok("Average")
        /\ (cls.score = Num(5000) /\ cls.percent = Num(99 * PctScale))
               => cls.out = Ok("Elite")

\* C2 amended: (1000, 98) is Excellent, (999, 98) is Very Good (rule 3 holds
\* of it before rule 5 is tried), (5000, 99) is Elite.
C2_ExcellentBoundary ==
    cls.called =>
        /\ (cls.score = Num(1000) /\ cls.percent = Num(98 * PctScale))
               => cls.out = Ok("Excellent")
        /\ (cls.score = Num(999) /\ cls.percent = Num(98 * PctScale))
               => cls.out = Ok("Very Good")
        /\ (cls.score = Num(5000) /\ cls.percent = Num(99 * PctScale))
               => cls.out = Ok("Elite")

\* The call (999, 98) has been answered.
C2_Witness ==
    /\ cls.called
    /\ cls.score = Num(999)
    /\ cls.percent = Num(98 * PctScale)
    /\ cls.out.v = "Very Good"

Missing(x)    == x.k = "none"
NonNumeric(x) == x.k \in {"str", "obj"}

\* The argument with 0 in the place of a missing or non-numeric value.
ZeroFor(x) == IF Missing(x) \/ NonNumeric(x) THEN Num(0) ELSE x

-----------------------------------------------------------------------------
(* The charity detector on its own: one call on a named username, or on    *)
(* any string of at most MaxNameLen characters of NameAlphabet.            *)

User_GoodwillStore123 == <<"G", "o", "o", "d", "w", "i", "l", "l", "S", "t", "o", "r", "e", "1", "2", "3">>
User_MyCharityShop == <<"M", "y", "C", "h", "a", "r", "i", "t", "y", "S", "h", "o", "p">>
User_johnseller == <<"j", "o", "h", "n", "s", "e", "l", "l", "e", "r">>
User_Salvation_Army_NY == <<"S", "a", "l", "v", "a", "t", "i", "o", "n", "_", "A", "r", "m", "y", "_", "N", "Y">>
User_OXFAM == <<"O", "X", "F", "A", "M">>
User_habit == <<"h", "a", "b", "i", "t">>
User_svdp_thrift == <<"s", "v", "d", "p", "_", "t", "h", "r", "i", "f", "t">>

NamedUsers == {User_GoodwillStore123, User_MyCharityShop, User_johnseller, User_Salvation_Army_NY, User_OXFAM, User_habit, User_svdp_thrift}

\* Longest username drawn from NameAlphabet.
MaxNameLen == 4

NameAlphabet == {"b", "h", "f", "B", "H", "F", "x", "1"}

RECURSIVE StringsUpTo(_)
StringsUpTo(n) ==
    IF n = 0 THEN {<<>>}
    ELSE LET shorter == StringsUpTo(n - 1)
         IN  shorter \cup {Append(s, c) : s \in {t \in shorter : Len(t) = n - 1},
                                            c \in NameAlphabet}

UsernameInputs ==
    {NoName} \cup {Name(s) : s \in NamedUsers \cup StringsUpTo(MaxNameLen)}

InitCharity ==
    /\ cls = ClsIdle
    /\ chk \in [username : UsernameInputs, called : {FALSE}, out : {FALSE}]
    /\ SessionIdle
    /\ SearchIdle

\* A call is_charity_seller(username), lines 69-102.
CheckCharity ==
    /\ ~chk.called
    /\ chk' = [chk EXCEPT !.called = TRUE, !.out = is_charity_seller(chk.username)]
    /\ UNCHANGED << classVars, sessionVars, searchVars, requestVars, formVars >>

NextCharity == CheckCharity

SpecCharity == InitCharity /\ [][NextCharity]_vars

\* Keyword k occurs in s at offset o when letters are compared without case.
OccursAt(k, s, o) ==
    /\ o + Len(k) <= Len(s)
    /\ \A j \in 1..Len(k) : LowerChar(s[o + j]) = k[j]

\* C7: is_charity_seller answers true exactly when some keyword of the list
\* occurs somewhere in the username, case ignored, and false for an empty or
\* absent username; GoodwillStore123 and MyCharityShop are charities,
\* johnseller and the empty name are not.
C7_SubstringMatch ==
    chk.called =>
        LET u == chk.username
        IN  /\ chk.out = (/\ ~u.none
                          /\ \E n \in 1..Len(charity_keywords) :
                                 \E o \in 0..Len(u.chars) :
                                     OccursAt(charity_keywords[n], u.chars, o))
            /\ (u.none \/ u.chars = <<>>) => chk.out = FALSE
            /\ u = Name(User_GoodwillStore123) => chk.out = TRUE
            /\ u = Name(User_MyCharityShop) => chk.out = TRUE
            /\ u = Name(User_johnseller) => chk.out = FALSE

\* MyCharityShop, a keyword in mixed case inside the name, has been answered.
C7_Witness ==
    /\ chk.called
    /\ chk.username = Name(User_MyCharityShop)
    /\ chk.out = TRUE

-----------------------------------------------------------------------------
(* The saved-search list under any sequence of save, load and delete.      *)

\* Most entries the list is let grow to.
MaxSaved == 2

\* The parameter sets a save is called with (the widgets' values, lines
\* 290-297). Two sets may differ in the limit alone.
ParamChoices ==
    [search_term : {"lego", "nike"}, category : {"All Categories", "Books"},
     listing_type : {"All"}, seller_rating : {{}}, max_price : {25, 150},
     limit : {25, 50}]

InitSession ==
    /\ cls = ClsIdle
    /\ chk = ChkIdle
    /\ saved_searches = <<>>
    /\ loaded = <<>>
    /\ ret = NoCall
    /\ FormUntouched
    /\ SearchIdle

\* The Save Search button, lines 289-302.
SaveSearch(search_params) ==
    /\ Len(saved_searches) < MaxSaved
           \/ search_name(search_params)
                  \in {saved_searches[i].name : i \in 1..Len(saved_searches)}
    /\ LET r == save_current_search(saved_searches, search_params)
       IN  /\ saved_searches' = r.list
           /\ ret' = Call("save", << search_params >>, r.value)
    /\ UNCHANGED << loaded, classVars, charityVars, searchVars, requestVars,
                    formVars >>

\* The Load button of entry i (0-based), lines 193-196.
LoadSearch(i) ==
    /\ i \in 0..(Len(saved_searches) - 1)
    /\ loaded' = load_saved_search(saved_searches[i + 1].params)
    /\ ret' = Call("load", << i >>, "None")
    /\ UNCHANGED << saved_searches, classVars, charityVars, searchVars,
                    requestVars, formVars >>

\* delete_saved_search(index): the Delete button of an entry (lines 198-201)
\* passes an index of the list; the function accepts any integer.
DeleteSearch(index) ==
    /\ saved_searches' = delete_saved_search(saved_searches, index)
    /\ ret' = Call("delete", << index >>, "None")
    /\ UNCHANGED << loaded, classVars, charityVars, searchVars, requestVars,
                    formVars >>

NextSession ==
    \/ \E search_params \in ParamChoices : SaveSearch(search_params)
    \/ \E i \in 0..(MaxSaved - 1) : LoadSearch(i)
    \/ \E index \in (0 - 1)..(MaxSaved + 1) : DeleteSearch(index)

SpecSession == InitSession /\ [][NextSession]_vars

\* The label of a parameter set: its search term, category and max price.
LabelOf(search_params) ==
    << search_params.search_term, search_params.category, search_params.max_price >>

Labels(list) == {LabelOf(list[i].params) : i \in 1..Len(list)}

NoTwoSameLabel(list) ==
    \A i, j \in 1..Len(list) :
        (LabelOf(list[i].params) = LabelOf(list[j].params)
            \/ list[i].name = list[j].name) => i = j

\* What the step just taken, recorded in ret', did to the list.
SessionStepAsClaimed ==
    LET old == saved_searches
        new == saved_searches'
        arg == ret'.arg[1]
    IN  /\ ret'.op = "save" =>
               IF LabelOf(arg) \in Labels(old)
               THEN ret'.value = "False" /\ new = old
               ELSE /\ ret'.value = "True"
                    /\ Len(new) = Len(old) + 1
                    /\ SubSeq(new, 1, Len(old)) = old
                    /\ new[Len(new)].params = arg
        /\ ret'.op = "delete" =>
               IF arg \in 0..(Len(old) - 1)
               THEN /\ Len(new) = Len(old) - 1
                    /\ \A k \in 1..Len(new) :
                           new[k] = IF k <= arg THEN old[k] ELSE old[k + 1]
               ELSE new = old
        /\ ret'.op = "load" => new = old

\* C8: no two saved entries ever carry the same label; a save of an existing
\* label returns False and leaves the list as it was, a save of a new label
\* appends one entry and returns True; a delete with an index of the list
\* removes that entry and no other, a delete with any other index changes
\* nothing; a load leaves the list as it was.
C8_SavedSearchList ==
    /\ [](NoTwoSameLabel(saved_searches))
    /\ [][SessionStepAsClaimed]_vars

\* A save that met its own label in a full list and was refused.
C8_Witness ==
    /\ Len(saved_searches) = MaxSaved
    /\ ret.op = "save"
    /\ ret.value = "False"
    /\ ret.arg[1] # saved_searches[1].params
    /\ LabelOf(ret.arg[1]) = LabelOf(saved_searches[1].params)

-----------------------------------------------------------------------------
(* A search run, lines 311-551: the click, the request, the response, the  *)
(* filter loop over the items of the response, the presentation.           *)

User_BHF1 == <<"B", "H", "F", "1">>

BaseItem ==
    [title |-> "base", price |-> Num(1000),
     shipping |-> [options |-> "absent", cost |-> Absent],
     conditionId |-> "3000", condition |-> "Used",
     username |-> Name(User_johnseller),
     feedbackScore |-> Num(250), feedbackPercentage |-> Num(96 * PctScale),
     buyingOptions |-> << "FIXED_PRICE" >>, itemEndDate |-> "",
     currentBidPrice |-> Absent, bidCount |-> Absent,
     itemWebUrl |-> "https://www.ebay.com/itm/1"]

\* A fixed-price listing at n dollars with no shipping options.
Priced(n) == [BaseItem EXCEPT !.title = "priced " \o ToString(n),
                              !.price = Num(n * 100)]

ShipFirst(cost) == [options |-> "first", cost |-> cost]

AuctionItem ==
    [BaseItem EXCEPT !.title = "auction", !.buyingOptions = << "AUCTION", "BEST_OFFER" >>,
                     !.itemEndDate = "2026-01-01T09:00:00Z",
                     !.currentBidPrice = Num(500), !.bidCount = Num(3)]

WellFormedItems ==
    { Priced(10), Priced(30), Priced(50),
      [BaseItem EXCEPT !.title = "at limit", !.price = Num(10000),
                       !.shipping = ShipFirst(Num(5000))],
      [BaseItem EXCEPT !.title = "cent over", !.price = Num(10000),
                       !.shipping = ShipFirst(Num(5001))],
      [BaseItem EXCEPT !.title = "for parts", !.conditionId = "7000"],
      [BaseItem EXCEPT !.title = "for parts, dear", !.conditionId = "7000",
                       !.price = Num(20000)],
      [BaseItem EXCEPT !.title = "charity", !.username = Name(User_BHF1),
                       !.feedbackScore = Num(5000),
                       !.feedbackPercentage = Num(99 * PctScale)],
      [BaseItem EXCEPT !.title = "no price, no seller", !.price = Absent,
                       !.shipping = ShipFirst(Absent), !.username = Name(<<>>),
                       !.feedbackScore = Absent, !.feedbackPercentage = Absent],
      AuctionItem,
      [AuctionItem EXCEPT !.title = "auction, late",
                          !.itemEndDate = "2026-01-01T19:00:00Z",
                          !.currentBidPrice = Absent, !.bidCount = Absent],
      [AuctionItem EXCEPT !.title = "auction, bad date", !.itemEndDate = "soon"],
      [AuctionItem EXCEPT !.title = "auction, no date", !.itemEndDate = ""],
      [BaseItem EXCEPT !.title = "fixed, dated",
                       !.itemEndDate = "2026-01-01T09:00:00Z",
                       !.currentBidPrice = Num(500), !.bidCount = Num(3)] }

MalformedItems ==
    { [BaseItem EXCEPT !.title = "price text", !.price = PyText],
      [BaseItem EXCEPT !.title = "no shipping option", !.shipping =
                           [options |-> "empty", cost |-> Absent]],
      [BaseItem EXCEPT !.title = "shipping null", !.shipping = ShipFirst(PyNone)],
      [BaseItem EXCEPT !.title = "feedback text", !.feedbackScore = PyText,
                       !.feedbackPercentage = Num(99 * PctScale)],
      [AuctionItem EXCEPT !.title = "bid text", !.currentBidPrice = PyText] }

ItemUniverse == WellFormedItems \cup MalformedItems

\* Longest response drawn from ItemUniverse.
MaxItems == 2

RECURSIVE ListsUpTo(_)
ListsUpTo(n) ==
    IF n = 0 THEN {<<>>}
    ELSE LET shorter == ListsUpTo(n - 1)
         IN  shorter \cup {Append(l, it) : l \in {t \in shorter : Len(t) = n - 1},
                                             it \in ItemUniverse}

\* The five listings priced 10, 20, 30, 40 and 50 dollars, in every order.
ExamplePrices == << 10, 20, 30, 40, 50 >>

ExampleLists ==
    {[i \in 1..Len(ExamplePrices) |-> Priced(ExamplePrices[q[i]])] :
        q \in Permutations(1..Len(ExamplePrices))}

ResponseLists == ListsUpTo(MaxItems) \cup ExampleLists

\* The widget values a search is clicked with.
FormChoices ==
    [max_price : {25, 150}, seller_type : {"All", "Charity"},
     seller_rating : {{}, {"Elite", "Excellent"}},
     listing_type : {"All", "Auction"}, category : {"Books"},
     search_term : {"lego"}, limit : {25}]

\* get_access_token(), lines 28-41: the token, or None ("" here) when the
\* token endpoint's answer carries no access_token.
NoToken == ""

LoadedSample ==
    [search_term |-> "lego", category |-> "Books", listing_type |-> "All",
     seller_rating |-> {}, max_price |-> 150, limit |-> 25]

Init ==
    /\ cls = ClsIdle
    /\ chk = ChkIdle
    /\ saved_searches = <<>>
    /\ loaded \in {<<>>, << LoadedSample >>}
    /\ ret = NoCall
    /\ FormUntouched
    /\ request = NoRequest
    /\ access_token \in {NoToken, "v^1.1#i^1#token"}
    /\ form \in FormChoices
    /\ pc = "clicked"
    /\ requests = 0
    /\ status_code = 0
    /\ items = <<>>
    /\ idx = 0
    /\ results = <<>>
    /\ presented = <<>>
    /\ error = ""

\* Lines 311-371: the loaded_* keys are deleted; without a token the run
\* reports it and ends, otherwise one GET request is issued.
SearchClicked ==
    /\ pc = "clicked"
    /\ loaded' = <<>>
    /\ IF access_token = NoToken
       THEN pc' = "no_token" /\ UNCHANGED << requests, request >>
       ELSE /\ pc' = "requested"
            /\ requests' = requests + 1
            /\ request' = build_request(form)
    /\ UNCHANGED << classVars, charityVars, formVars, saved_searches, ret,
                    access_token, form, status_code, items, idx, results,
                    presented, error >>

\* Mutant: every answer of the endpoint read as a result page.
ReceiveResponseAnyStatus(status, list) ==
    /\ pc = "requested"
    /\ status_code' = status
    /\ pc' = "filter" /\ items' = list
    /\ UNCHANGED << classVars, charityVars, sessionVars, requestVars, formVars,
                    access_token, form,
                    requests, idx, results, presented, error >>

\* Lines 371-382: the answer of the search endpoint. Another status than 200
\* is reported and ends the run; a 200 hands its itemSummaries to the loop.
ReceiveResponse(status, list) ==
    /\ pc = "requested"
    /\ status_code' = status
    /\ IF status # 200
       THEN pc' = "api_error" /\ list = <<>> /\ UNCHANGED items
       ELSE pc' = "filter" /\ items' = list
    /\ UNCHANGED << classVars, charityVars, sessionVars, requestVars, formVars,
                    access_token, form,
                    requests, idx, results, presented, error >>

\* Lines 383-443: one turn of the loop, on items[idx + 1]. An exception
\* leaves the loop and ends the run.
FilterItem ==
    /\ pc = "filter"
    /\ idx < Len(items)
    /\ LET out == LoopBody(items[idx + 1], form)
       IN  CASE out.kind = "raise" ->
                    /\ pc' = "aborted"
                    /\ error' = out.exc
                    /\ UNCHANGED << idx, results >>
             [] out.kind = "skip" ->
                    /\ idx' = idx + 1
                    /\ UNCHANGED << pc, error, results >>
             [] out.kind = "append" ->
                    /\ idx' = idx + 1
                    /\ results' = Append(results, out.record)
                    /\ UNCHANGED << pc, error >>
    /\ UNCHANGED << classVars, charityVars, sessionVars, requestVars, formVars,
                    access_token, form,
                    requests, status_code, items, presented >>

\* Lines 445-551, after the loop: the frame that is displayed.
Present ==
    /\ pc = "filter"
    /\ idx = Len(items)
    /\ IF results # <<>> /\ form.listing_type # "Auction"
       THEN presented' \in SortByPrice([i \in 1..Len(results) |->
                                            DropAuctionColumns(results[i])])
       ELSE IF results # <<>> /\ form.listing_type = "Auction"
       THEN presented' \in SortByEndTime([i \in 1..Len(results) |->
                                              DropPriceColumn(results[i])])
       ELSE presented' = <<>>
    /\ pc' = "done"
    /\ UNCHANGED << classVars, charityVars, sessionVars, requestVars, formVars,
                    access_token, form,
                    requests, status_code, items, idx, results, error >>

StatusCodes == {200, 401, 500}

Next ==
    \/ SearchClicked
    \/ /\ pc = "requested"
       /\ \E status \in StatusCodes, list \in ResponseLists :
              ReceiveResponse(status, list)
    \/ FilterItem
    \/ Present

Spec == Init /\ [][Next]_vars

-----------------------------------------------------------------------------
(* The filter as the specification words it, for the claims below.         *)

\* An amount, 0 when it is absent or no number.
AmountOrZero(x) == IF x.k = "num" THEN x.v ELSE 0

\* Price plus the first shipping option's cost, 0 if there is none.
TotalCostOf(item) ==
    AmountOrZero(item.price)
        + (IF item.shipping.options = "first" THEN AmountOrZero(item.shipping.cost)
           ELSE 0)

ClassifiedTier(item) ==
    categorize_seller(GetOr(item.feedbackScore, Num(0)),
                      GetOr(item.feedbackPercentage, Num(0))).v

\* None of the four exclusions applies to the item.
PassesFilters(item, f) ==
    /\ item.conditionId # "7000"
    /\ f.seller_type # "Charity" \/ is_charity_seller(item.username)
    /\ f.seller_rating = {} \/ ClassifiedTier(item) \in f.seller_rating
    /\ TotalCostOf(item) <= f.max_price * 100

RECURSIVE SelectPassing(_, _)
SelectPassing(list, f) ==
    IF list = <<>> THEN <<>>
    ELSE IF PassesFilters(Head(list), f)
         THEN << Head(list) >> \o SelectPassing(Tail(list), f)
         ELSE SelectPassing(Tail(list), f)

AbsentOrNumeric(x) == x.k \in {"absent", "num"}

\* Every amount and feedback figure of the item is a number or absent; the
\* shipping option list may be absent or empty.
NoTextField(item) ==
    /\ AbsentOrNumeric(item.price)
    /\ AbsentOrNumeric(item.shipping.cost)
    /\ AbsentOrNumeric(item.currentBidPrice)
    /\ AbsentOrNumeric(item.feedbackScore)
    /\ AbsentOrNumeric(item.feedbackPercentage)

RunEnded == pc \in {"done", "aborted"}

\* C4 as stated: whatever the items and the parameters, the run's result list
\* is the items that pass the four filters, in input order, once each; the
\* cost of an item without a first shipping option is its price.
C4_AsStated ==
    (RunEnded /\ \A i \in 1..Len(items) : NoTextField(items[i])) =>
        LET passing == SelectPassing(items, form)
        IN  /\ Len(results) = Len(passing)
            /\ \A k \in 1..Len(passing) :
                   /\ results[k].listing = passing[k].title
                   /\ results[k].price = AmountOrZero(passing[k].price)

\* C5 as stated: no missing or non-numeric price, shipping cost or feedback
\* field, and no empty shipping option list, ever ends the run early: the
\* loop goes through every item of the batch.
C5_AsStated ==
    /\ pc # "aborted"
    /\ error = ""
    /\ pc = "done" => idx = Len(items)

\* C6: the records appended so far are those of the handled items that pass
\* the four filters, none missing because of its end date; in each record the
\* bid count and current bid price are set only for an auction, and the end
\* time is N/A for a listing that is no auction or has no end date, Invalid
\* date for an auction whose end date does not parse.
C6_AuctionFields ==
    pc \in {"filter", "done", "aborted"} =>
        LET passing == SelectPassing(SubSeq(items, 1, idx), form)
        IN  /\ Len(results) = Len(passing)
            /\ \A k \in 1..Len(passing) :
                   LET r       == results[k]
                       it      == passing[k]
                       auction == \E j \in 1..Len(it.buyingOptions) :
                                      it.buyingOptions[j] = "AUCTION"
                   IN  /\ r.listing = it.title
                       /\ r.auction_end_time =
                              IF ~auction \/ it.itemEndDate = "" THEN "N/A"
                              ELSE IF FormatEndTime(it.itemEndDate).exc # ""
                                   THEN "Invalid date"
                                   ELSE FormatEndTime(it.itemEndDate).v
                       /\ ~auction => /\ r.bid_count = PyNone
                                      /\ r.current_bid_price = PyNone
                       /\ auction => /\ r.bid_count = GetOr(it.bidCount, PyNone)
                                     /\ r.current_bid_price.k = "num"

\* A finished run whose results hold an auction with an end date that did
\* not parse, next to a listing that is no auction.
C6_Witness ==
    /\ pc = "done"
    /\ Len(results) = 2
    /\ items[1].itemEndDate = "soon"
    /\ results[1].auction_end_time = "Invalid date"
    /\ results[1].current_bid_price = Num(500)
    /\ results[2].auction_end_time = "N/A"
    /\ results[2].bid_count = PyNone

\* C9: records come only from a run that had a token and got status 200;
\* without a token no request is issued and the run stops; after another
\* status than 200 no item is filtered and nothing is produced; no run issues
\* a second request.
C9_TokenAndStatusGate ==
    /\ requests <= 1
    /\ access_token = NoToken => /\ requests = 0
                                 /\ pc \in {"clicked", "no_token"}
    /\ pc = "no_token" => access_token = NoToken
    /\ (pc \in {"filter", "done", "aborted"} \/ idx > 0 \/ items # <<>>
            \/ results # <<>> \/ presented # <<>>)
           => (access_token # NoToken /\ status_code = 200 /\ requests = 1)
    /\ status_code \notin {0, 200} => pc = "api_error"
    /\ pc = "api_error" => status_code \notin {0, 200}

\* The endpoint answered 500 to the one request of the run.
C9_Witness ==
    /\ pc = "api_error"
    /\ status_code = 500
    /\ requests = 1
    /\ results = <<>>

Count(seq, x) == Cardinality({i \in 1..Len(seq) : seq[i] = x})

\* C10: when the listing type is not Auction and the results are not empty,
\* the displayed rows are the accepted records, each as often as it was
\* accepted, in an order in which the price never decreases; the five
\* listings at 10, 20, 30, 40 and 50 dollars under a max price of 150 are
\* displayed in that order whatever order they came in.
C10_SortedByPrice ==
    (pc = "done" /\ form.listing_type # "Auction" /\ results # <<>>) =>
        LET rows == [i \in 1..Len(results) |-> DropAuctionColumns(results[i])]
        IN  /\ Len(presented) = Len(rows)
            /\ \A i \in 1..Len(rows) : Count(presented, rows[i]) = Count(rows, rows[i])
            /\ \A i \in 1..(Len(presented) - 1) :
                   presented[i].price <= presented[i + 1].price
            /\ (items \in ExampleLists /\ form.max_price = 150
                   /\ form.seller_type = "All" /\ form.seller_rating = {})
                   => [i \in 1..Len(presented) |-> presented[i].price]
                          = [i \in 1..Len(ExamplePrices) |-> ExamplePrices[i] * 100]

\* The five listings came dearest first and are displayed cheapest first.
C10_Witness ==
    /\ pc = "done"
    /\ form.listing_type = "All"
    /\ Len(items) = 5
    /\ items[1].price = Num(5000)
    /\ items[5].price = Num(1000)
    /\ Len(presented) = 5
    /\ presented[1].price = 1000
    /\ presented[5].price = 5000

-----------------------------------------------------------------------------
(* The request on its own: a click on Search for every form.               *)

ListingTypes == {"All", "Auction", "Fixed Price", "Best Offer"}

\* The forms a search is clicked with: every category and listing type, the
\* ends and the default of the price and of the limit (lines 268-280).
RequestForms ==
    [max_price : {1, 150, 10000}, seller_type : {"All"}, seller_rating : {{}},
     listing_type : ListingTypes,
     category : {CategoryNames[i] : i \in DOMAIN CategoryNames},
     search_term : {"lego"}, limit : {1, 25, 100}]

InitRequest ==
    /\ cls = ClsIdle
    /\ chk = ChkIdle
    /\ SessionIdle
    /\ request = NoRequest
    /\ access_token \in {NoToken, "v^1.1#i^1#token"}
    /\ form \in RequestForms
    /\ pc = "clicked"
    /\ requests = 0
    /\ status_code = 0
    /\ items = <<>>
    /\ idx = 0
    /\ results = <<>>
    /\ presented = <<>>
    /\ error = ""

NextRequest == SearchClicked

SpecRequest == InitRequest /\ [][NextRequest]_vars

Carries(clause) == \E i \in DOMAIN request.filters : request.filters[i] = clause

BuyingClauses ==
    {"buyingOptions:{AUCTION}", "buyingOptions:{FIXED_PRICE}",
     "buyingOptions:{BEST_OFFER}"}

BuyingClauseOf(listing_type) ==
    CASE listing_type = "Auction"     -> "buyingOptions:{AUCTION}"
      [] listing_type = "Fixed Price" -> "buyingOptions:{FIXED_PRICE}"
      [] listing_type = "Best Offer"  -> "buyingOptions:{BEST_OFFER}"
      [] OTHER                        -> "None"

\* C11: every request that is sent carries the price clause [1..max_price],
\* the currency clause and the condition allow-list; it carries a buying
\* options clause exactly when the listing type is not "All", and then the
\* clause of that type and no other; it carries category_ids exactly when the
\* category has an identifier, and then that identifier. The filter parameter
\* is the clauses joined by commas.
C11_RequestClauses ==
    request.sent =>
        /\ Carries("price:[1.." \o ToString(form.max_price) \o "]")
        /\ Carries("priceCurrency:USD")
        /\ Carries("conditions:{1000|1500|2000|2500|3000}")
        /\ \A clause \in BuyingClauses :
               Carries(clause) <=> /\ form.listing_type \in ListingTypes \ {"All"}
                                   /\ clause = BuyingClauseOf(form.listing_type)
        /\ "category_ids" \in DOMAIN request.params
               <=> form.category # "All Categories"
        /\ "category_ids" \in DOMAIN request.params
               => /\ request.params.category_ids = category_options(form.category)
                  /\ request.params.category_ids # NoCategoryId
        /\ request.params.filter = JoinClauses(request.filters)
        /\ request.params.limit = form.limit

C11_Witness ==
    /\ request.sent
    /\ form.listing_type = "Best Offer"
    /\ form.category = "Men's Shoes"
    /\ form.max_price = 10000
    /\ request.params.filter
           = "price:[1..10000],priceCurrency:USD,"
                 \o "conditions:{1000|1500|2000|2500|3000},"
                 \o "buyingOptions:{BEST_OFFER},aspect_filter=US Shoe Size:{11}"
    /\ request.params.category_ids = "93427"

-----------------------------------------------------------------------------
(* The form and the saved searches together: set, save, load, delete.      *)

\* The values the user gives a widget.
WidgetChoices(key) ==
    CASE key = "category"    -> {"All Categories", "Books"}
      [] key = "seller_type" -> {"All", "Charity"}
      [] key = "max_price"   -> {25, 150}
      [] OTHER               -> {default_value(key)}

InitRoundTrip ==
    /\ cls = ClsIdle
    /\ chk = ChkIdle
    /\ SessionIdle
    /\ SearchIdle

\* The user changes one widget; the script runs again.
SetWidget(key, value) ==
    /\ value # Render(widgets, loaded)[key].value
    /\ widgets' = [Render(widgets, loaded) EXCEPT ![key].value = value]
    /\ ret' = Call("set", << key >>, "None")
    /\ UNCHANGED << saved_searches, loaded, snapshots, classVars, charityVars,
                    searchVars, requestVars >>

\* A run with Save Search clicked, lines 224-302.
ClickSave ==
    LET w             == Render(widgets, loaded)
        search_params == search_params_of(w)
        r             == save_current_search(saved_searches, search_params)
    IN  /\ Len(saved_searches) < MaxSaved
               \/ search_name(search_params)
                      \in {saved_searches[i].name : i \in 1..Len(saved_searches)}
        /\ widgets' = w
        /\ saved_searches' = r.list
        /\ snapshots' = IF r.value = "True" THEN Append(snapshots, Values(w))
                        ELSE snapshots
        /\ ret' = Call("save", << search_params >>, r.value)
        /\ UNCHANGED << loaded, classVars, charityVars, searchVars, requestVars >>

\* The Load button of entry i (lines 193-196) and the run that st.rerun()
\* starts.
ClickLoad(i) ==
    /\ i \in 0..(Len(saved_searches) - 1)
    /\ loaded' = load_saved_search(saved_searches[i + 1].params)
    /\ widgets' = Render(widgets, loaded')
    /\ ret' = Call("load", << i >>, "None")
    /\ UNCHANGED << saved_searches, snapshots, classVars, charityVars, searchVars,
                    requestVars >>

\* The Delete button of entry i (lines 198-201) and the run that follows.
ClickDelete(i) ==
    /\ i \in 0..(Len(saved_searches) - 1)
    /\ saved_searches' = delete_saved_search(saved_searches, i)
    /\ snapshots' = delete_saved_search(snapshots, i)
    /\ widgets' = Render(widgets, loaded)
    /\ ret' = Call("delete", << i >>, "None")
    /\ UNCHANGED << loaded, classVars, charityVars, searchVars, requestVars >>

NextRoundTrip ==
    \/ \E key \in FormKeys : \E value \in WidgetChoices(key) : SetWidget(key, value)
    \/ ClickSave
    \/ \E i \in 0..(MaxSaved - 1) : ClickLoad(i)
    \/ \E i \in 0..(MaxSaved - 1) : ClickDelete(i)

SpecRoundTrip == InitRoundTrip /\ [][NextRoundTrip]_vars

\* C12: in the run that follows the load of a saved entry, each of the seven
\* parameters of the form has the value it had when the entry was saved.
C12_AsStated ==
    ret.op = "load" => Values(widgets) = snapshots[ret.arg[1] + 1]

====
